---- MODULE Spec2Model ----
(***************************************************************************)
(* Model of the BadgerDB buffer pool manager, src/buffer.cpp (class        *)
(* BufMgr): the frame table bufDescTable, the page pool bufPool, the       *)
(* directory hashTable, the clock hand, and the operations readPage,       *)
(* allocPage, unPinPage, flushFile and disposePage with the clock sweep    *)
(* allocBuf.  Every public operation is one atomic action (the manager is  *)
(* single-threaded); the calls an operation makes on its collaborators     *)
(* (the File and the directory) are recorded, in program order, in the     *)
(* log of the call.                                                        *)
(***************************************************************************)
EXTENDS Integers, Sequences, FiniteSets, TLC

\* ------------------------------------------------------------------ bounds
NumBufs == 2          \* bufs, the constructor's argument (number of frames)
MaxPage == 2          \* page numbers of a file are 1..MaxPage
MaxPin == 2           \* readPage is not called on a page already pinned MaxPin times

\* ------------------------------------------------------- values and types
INVALID_NUMBER == 0   \* Page::INVALID_NUMBER
NullFile == "NULL"    \* the null File pointer of an empty descriptor
Files == {"F1", "F2"}
PageIds == 1..MaxPage
Frames == 0..(NumBufs - 1)
NoFrame == -1
NoError == "none"

VARIABLES
  bufDescTable,   \* [Frames -> descriptor]: file, pageNo, pinCnt, dirty, valid, refbit
  bufPool,        \* [Frames -> page number carried by the Page stored in the slot]
  hashTable,      \* set of directory entries [file, pageNo, frameNo]
  clockHand,      \* the clock hand, in Frames
  files,          \* [Files -> set of page numbers allocated in the file]
  outstanding,    \* history: per (file, page), successful reads/allocations minus
                  \* successful unpins since the page was loaded into its frame
  last            \* the last call: operation, error raised, frame it ended on,
                  \* number of File::writePage calls it made, what that frame
                  \* held before the call

vars == <<bufDescTable, bufPool, hashTable, clockHand, files, outstanding, last>>

\* ----------------------------------------------------- frame descriptors
\* BufDesc::Clear
Clear(d) ==
  [file |-> NullFile, pageNo |-> INVALID_NUMBER, pinCnt |-> 0,
   dirty |-> FALSE, valid |-> FALSE, refbit |-> FALSE]

\* BufDesc::Set
Set(d, file, pageNo) ==
  [file |-> file, pageNo |-> pageNo, pinCnt |-> 1,
   dirty |-> FALSE, valid |-> TRUE, refbit |-> TRUE]

\* ---------------------------------------------------------------- the log
Event(ev, file, pageNo, frame) ==
  [ev |-> ev, file |-> file, pageNo |-> pageNo, frame |-> frame]

\* ---------------------------------------------------------- the directory
\* BufHashTbl::lookup: the frame of (file, pageNo), NoFrame for HashNotFound
lookup(table, file, pageNo) ==
  IF \E e \in table : e.file = file /\ e.pageNo = pageNo
  THEN (CHOOSE e \in table : e.file = file /\ e.pageNo = pageNo).frameNo
  ELSE NoFrame

\* BufHashTbl::insert on the manager state m; HashAlreadyPresent if the key is there
insert(m, file, pageNo, frame) ==
  IF lookup(m.hashTable, file, pageNo) # NoFrame
  THEN [m EXCEPT !.err = "HashAlreadyPresent"]
  ELSE [m EXCEPT !.hashTable = @ \cup {[file |-> file, pageNo |-> pageNo, frameNo |-> frame]},
                 !.log = Append(@, Event("insert", file, pageNo, frame))]

\* BufHashTbl::remove on the manager state m; HashNotFound if the key is missing
remove(m, file, pageNo) ==
  IF lookup(m.hashTable, file, pageNo) = NoFrame
  THEN [m EXCEPT !.err = "HashNotFound"]
  ELSE [m EXCEPT !.hashTable = {e \in @ : ~(e.file = file /\ e.pageNo = pageNo)},
                 !.log = Append(@, Event("remove", file, pageNo,
                                          lookup(m.hashTable, file, pageNo)))]

\* ------------------------------------------------------ the manager state
\* The manager's fields as one record, with the error, the frame chosen, the
\* log of the call in progress and the number of advances of the clock hand
\* the call has made.
Mgr ==
  [bufDescTable |-> bufDescTable, bufPool |-> bufPool, hashTable |-> hashTable,
   clockHand |-> clockHand, files |-> files,
   err |-> NoError, frame |-> NoFrame, log |-> <<>>, advances |-> 0]

\* File::writePage(page): the page written is the one stored in the pool slot
writePage(m, file, frame) ==
  [m EXCEPT !.log = Append(@, Event("writePage", file, m.bufPool[frame], frame))]

\* bufDescTable[frame].Clear()
ClearFrame(m, frame) ==
  [m EXCEPT !.bufDescTable[frame] = Clear(@),
            !.log = Append(@, Event("Clear", NullFile, INVALID_NUMBER, frame))]

\* bufDescTable[frame].Set(file, pageNo)
SetFrame(m, file, pageNo, frame) ==
  [m EXCEPT !.bufDescTable[frame] = Set(@, file, pageNo),
            !.log = Append(@, Event("Set", file, pageNo, frame))]

\* bufPool[frame] = page
StorePage(m, pageNo, frame) ==
  [m EXCEPT !.bufPool[frame] = pageNo,
            !.log = Append(@, Event("store", NullFile, pageNo, frame))]

\* BufMgr::advanceClock
advanceClock(m) ==
  [m EXCEPT !.clockHand = (@ + 1) % NumBufs, !.advances = @ + 1]

\* ------------------------------------------------- the File collaborator
\* File::readPage(pageNo): raises InvalidPage when the file has no such page
fileReadPage(m, file, pageNo) ==
  IF pageNo \in m.files[file]
  THEN [m EXCEPT !.log = Append(@, Event("readPage", file, pageNo, NoFrame))]
  ELSE [m EXCEPT !.log = Append(@, Event("readPage", file, pageNo, NoFrame)),
                 !.err = "InvalidPage"]

\* File::allocatePage(): the file assigns pageNo, a number it does not use
allocatePage(m, file, pageNo) ==
  [m EXCEPT !.files[file] = @ \cup {pageNo},
            !.log = Append(@, Event("allocatePage", file, pageNo, NoFrame))]

\* File::deletePage(pageNo)
deletePage(m, file, pageNo) ==
  [m EXCEPT !.files[file] = @ \ {pageNo},
            !.log = Append(@, Event("deletePage", file, pageNo, NoFrame))]

\* ------------------------------------------------------------ clock sweep
\* evict with the directory removal forgotten
evict_keepsEntry(m) ==
  LET h == m.clockHand
      d == m.bufDescTable[h]
      w == IF d.dirty THEN writePage(m, d.file, h) ELSE m
  IN  ClearFrame([w EXCEPT !.frame = h], h)

\* evict with the write-back moved after the removal and the Clear
evict_writesLast(m) ==
  LET h == m.clockHand
      d == m.bufDescTable[h]
      r == remove([m EXCEPT !.frame = h], d.file, d.pageNo)
      c == ClearFrame(r, h)
  IN  IF r.err # NoError THEN r
      ELSE IF d.dirty THEN writePage(c, d.file, h) ELSE c

\* allocBuf, the eviction of the frame under the hand
evict(m) ==
  LET h == m.clockHand
      d == m.bufDescTable[h]
      w == IF d.dirty THEN writePage(m, d.file, h) ELSE m
      r == remove([w EXCEPT !.frame = h], d.file, d.pageNo)
  IN  IF r.err # NoError THEN r ELSE ClearFrame(r, h)

\* sweep with the pin check forgotten: an unreferenced pinned frame is evicted
RECURSIVE sweep_ignoresPins(_, _)
sweep_ignoresPins(m, pinCount) ==
  IF pinCount = NumBufs
  THEN [m EXCEPT !.err = "BufferExceeded"]
  ELSE LET a == advanceClock(m)
           h == a.clockHand
           d == a.bufDescTable[h]
       IN  IF ~d.valid THEN [a EXCEPT !.frame = h]
           ELSE IF d.refbit
                THEN sweep_ignoresPins([a EXCEPT !.bufDescTable[h].refbit = FALSE], pinCount)
           ELSE evict(a)

\* sweep that gives up only after meeting pinned frames 2 * numBufs times
RECURSIVE sweep_countsTwice(_, _)
sweep_countsTwice(m, pinCount) ==
  IF pinCount = 2 * NumBufs
  THEN [m EXCEPT !.err = "BufferExceeded"]
  ELSE LET a == advanceClock(m)
           h == a.clockHand
           d == a.bufDescTable[h]
       IN  IF ~d.valid THEN [a EXCEPT !.frame = h]
           ELSE IF d.refbit
                THEN sweep_countsTwice([a EXCEPT !.bufDescTable[h].refbit = FALSE], pinCount)
           ELSE IF d.pinCnt > 0 THEN sweep_countsTwice(a, pinCount + 1)
           ELSE evict(a)

\* allocBuf, the while loop; pinCount is the number of pinned frames met
RECURSIVE sweep(_, _)
sweep(m, pinCount) ==
  IF pinCount = NumBufs
  THEN [m EXCEPT !.err = "BufferExceeded"]
  ELSE LET a == advanceClock(m)
           h == a.clockHand
           d == a.bufDescTable[h]
       IN  IF ~d.valid THEN [a EXCEPT !.frame = h]
           ELSE IF d.refbit
                THEN sweep([a EXCEPT !.bufDescTable[h].refbit = FALSE], pinCount)
           ELSE IF d.pinCnt > 0 THEN sweep(a, pinCount + 1)
           ELSE evict(a)

\* allocBuf that sweeps again after it has found a frame
allocBuf_sweepsTwice(m) ==
  LET a == sweep(m, 0)
  IN  IF a.err # NoError THEN a ELSE sweep(a, 0)

\* BufMgr::allocBuf
allocBuf(m) == sweep(m, 0)

\* ------------------------------------------------------------- operations
\* readHit with the pin forgotten
readHit_noPin(m, frame) ==
  [m EXCEPT !.bufDescTable[frame].refbit = TRUE, !.frame = frame]

\* readHit that also advances the clock hand
readHit_movesHand(m, frame) ==
  [advanceClock(m) EXCEPT !.bufDescTable[frame].refbit = TRUE,
                          !.bufDescTable[frame].pinCnt = @ + 1,
                          !.frame = frame]

\* BufMgr::readPage, the hit branch
readHit(m, frame) ==
  [m EXCEPT !.bufDescTable[frame].refbit = TRUE,
            !.bufDescTable[frame].pinCnt = @ + 1,
            !.frame = frame]

\* readMiss with the directory insertion and Set moved before the file read
readMiss_setsFirst(m, file, pageNo) ==
  LET a == allocBuf(m)
      i == insert(a, file, pageNo, a.frame)
      r == fileReadPage(SetFrame(i, file, pageNo, a.frame), file, pageNo)
  IN  IF a.err # NoError THEN a
      ELSE IF i.err # NoError THEN i
      ELSE IF r.err # NoError THEN r
      ELSE StorePage(r, pageNo, a.frame)

\* BufMgr::readPage, the miss branch (the HashNotFound handler)
readMiss(m, file, pageNo) ==
  LET a == allocBuf(m)
      r == fileReadPage(a, file, pageNo)
      i == insert(StorePage(r, pageNo, a.frame), file, pageNo, a.frame)
  IN  IF a.err # NoError THEN a
      ELSE IF r.err # NoError THEN r
      ELSE IF i.err # NoError THEN i
      ELSE SetFrame(i, file, pageNo, a.frame)

\* BufMgr::readPage
readPage(m, file, pageNo) ==
  LET frame == lookup(m.hashTable, file, pageNo)
  IN  IF frame # NoFrame THEN readHit(m, frame) ELSE readMiss(m, file, pageNo)

\* unPinPage with the pinCnt <= 0 check forgotten
unPinPage_unchecked(m, file, pageNo, dirty) ==
  LET frame == lookup(m.hashTable, file, pageNo)
      marked == IF dirty THEN [m EXCEPT !.bufDescTable[frame].dirty = TRUE] ELSE m
  IN  IF frame = NoFrame THEN m
      ELSE [marked EXCEPT !.bufDescTable[frame].pinCnt = @ - 1, !.frame = frame]

\* unPinPage with the HashNotFound handler forgotten: the error is surfaced
unPinPage_surfacesMiss(m, file, pageNo, dirty) ==
  LET frame == lookup(m.hashTable, file, pageNo)
      marked == IF dirty THEN [m EXCEPT !.bufDescTable[frame].dirty = TRUE] ELSE m
  IN  IF frame = NoFrame THEN [m EXCEPT !.err = "HashNotFound"]
      ELSE IF marked.bufDescTable[frame].pinCnt <= 0
           THEN [marked EXCEPT !.err = "PageNotPinned", !.frame = frame]
      ELSE [marked EXCEPT !.bufDescTable[frame].pinCnt = @ - 1, !.frame = frame]

\* BufMgr::unPinPage
unPinPage(m, file, pageNo, dirty) ==
  LET frame == lookup(m.hashTable, file, pageNo)
      marked == IF dirty THEN [m EXCEPT !.bufDescTable[frame].dirty = TRUE] ELSE m
  IN  IF frame = NoFrame THEN m
      ELSE IF marked.bufDescTable[frame].pinCnt <= 0
           THEN [marked EXCEPT !.err = "PageNotPinned", !.frame = frame]
      ELSE [marked EXCEPT !.bufDescTable[frame].pinCnt = @ - 1, !.frame = frame]

\* BufMgr::allocPage; pageNo is the number the file assigns to the new page
allocPage(m, file, pageNo) ==
  LET n == allocatePage(m, file, pageNo)
      a == allocBuf(n)
      i == insert(a, file, pageNo, a.frame)
  IN  IF a.err # NoError THEN a
      ELSE IF i.err # NoError THEN i
      ELSE StorePage(SetFrame(i, file, pageNo, a.frame), pageNo, a.frame)

\* flushFrame with the write-back forgotten
flushFrame_noWrite(m, i) ==
  LET d == m.bufDescTable[i]
      r == remove(m, d.file, d.pageNo)
  IN  IF r.err # NoError THEN r ELSE ClearFrame(r, i)

\* BufMgr::flushFile, one frame of the file: write back if dirty, remove, Clear
flushFrame(m, i) ==
  LET d == m.bufDescTable[i]
      w == IF d.dirty
           THEN [writePage(m, d.file, i) EXCEPT !.bufDescTable[i].dirty = FALSE]
           ELSE m
      r == remove(w, d.file, d.pageNo)
  IN  IF r.err # NoError THEN r ELSE ClearFrame(r, i)

\* flushFrom with the pin check forgotten
RECURSIVE flushFrom_ignoresPins(_, _, _)
flushFrom_ignoresPins(m, file, i) ==
  IF i = NumBufs THEN m
  ELSE LET d == m.bufDescTable[i]
           f == flushFrame(m, i)
       IN  IF d.file # file THEN flushFrom_ignoresPins(m, file, i + 1)
           ELSE IF f.err # NoError THEN f
           ELSE flushFrom_ignoresPins(f, file, i + 1)

\* flushFrom with a pre-scan: nothing is flushed when a frame of the file is pinned
flushFrom_prescan(m, file, i) ==
  LET P == {j \in i..(NumBufs - 1) :
              m.bufDescTable[j].file = file /\ m.bufDescTable[j].pinCnt > 0}
  IN  IF P # {}
      THEN [m EXCEPT !.err = "PagePinned",
                     !.frame = CHOOSE j \in P : \A k \in P : j <= k]
      ELSE flushFrom_ignoresPins(m, file, i)

\* BufMgr::flushFile, the loop from frame i on
RECURSIVE flushFrom(_, _, _)
flushFrom(m, file, i) ==
  IF i = NumBufs THEN m
  ELSE LET d == m.bufDescTable[i]
           f == flushFrame(m, i)
       IN  IF d.file # file THEN flushFrom(m, file, i + 1)
           ELSE IF d.pinCnt > 0 THEN [m EXCEPT !.err = "PagePinned", !.frame = i]
           ELSE IF d.pageNo = INVALID_NUMBER
                THEN [m EXCEPT !.err = "BadBuffer", !.frame = i]
           ELSE IF f.err # NoError THEN f
           ELSE flushFrom(f, file, i + 1)

\* BufMgr::flushFile
flushFile(m, file) == flushFrom(m, file, 0)

\* disposePage with the Clear forgotten: the directory entry alone is removed
disposePage_keepsFrame(m, file, pageNo) ==
  LET frame == lookup(m.hashTable, file, pageNo)
      r == remove(m, file, pageNo)
      c == IF frame = NoFrame \/ r.err # NoError
           THEN m
           ELSE [r EXCEPT !.frame = frame]
  IN  deletePage(c, file, pageNo)

\* disposePage with deletePage moved into the try block: a page that is not
\* resident is not deleted from the file
disposePage_onlyResident(m, file, pageNo) ==
  LET frame == lookup(m.hashTable, file, pageNo)
      r == remove(m, file, pageNo)
  IN  IF frame = NoFrame \/ r.err # NoError
      THEN m
      ELSE deletePage([ClearFrame(r, frame) EXCEPT !.frame = frame], file, pageNo)

\* disposePage that refuses a pinned page, as flushFile does
disposePage_refusesPinned(m, file, pageNo) ==
  LET frame == lookup(m.hashTable, file, pageNo)
      r == remove(m, file, pageNo)
  IN  IF frame # NoFrame /\ m.bufDescTable[frame].pinCnt > 0
      THEN [m EXCEPT !.err = "PagePinned", !.frame = frame]
      ELSE deletePage(IF frame = NoFrame \/ r.err # NoError
                      THEN m
                      ELSE [ClearFrame(r, frame) EXCEPT !.frame = frame],
                      file, pageNo)

\* BufMgr::disposePage
disposePage(m, file, pageNo) ==
  LET frame == lookup(m.hashTable, file, pageNo)
      r == remove(m, file, pageNo)
      c == IF frame = NoFrame \/ r.err # NoError
           THEN m
           ELSE [ClearFrame(r, frame) EXCEPT !.frame = frame]
  IN  deletePage(c, file, pageNo)

\* destroyFrom that leaves pinned frames alone
RECURSIVE destroyFrom_skipsPinned(_, _)
destroyFrom_skipsPinned(m, i) ==
  IF i = NumBufs THEN m
  ELSE LET d == m.bufDescTable[i]
       IN  destroyFrom_skipsPinned(
             IF d.valid /\ d.dirty /\ d.pinCnt = 0 THEN writePage(m, d.file, i) ELSE m,
             i + 1)

\* BufMgr::~BufMgr, the loop from frame i on
RECURSIVE destroyFrom(_, _)
destroyFrom(m, i) ==
  IF i = NumBufs THEN m
  ELSE LET d == m.bufDescTable[i]
       IN  destroyFrom(IF d.valid /\ d.dirty THEN writePage(m, d.file, i) ELSE m,
                       i + 1)

\* BufMgr::~BufMgr
destructor(m) == destroyFrom(m, 0)

\* ---------------------------------------------------------------- history
Keys == Files \X PageIds

Resident(table, k) == lookup(table, k[1], k[2]) # NoFrame

\* The pins a caller holds on page k after a call that ended in manager state
\* m: +1 for a successful readPage/allocPage of k, -1 for a successful
\* unPinPage of k, counted from 0 when the page is loaded.
Outstanding(m, op, key) ==
  [k \in Keys |->
     IF ~Resident(m.hashTable, k) THEN 0
     ELSE (IF Resident(hashTable, k) THEN outstanding[k] ELSE 0)
          + (IF k = key /\ m.err = NoError
             THEN (IF op \in {"readPage", "allocPage"} THEN 1
                   ELSE IF op = "unPinPage" THEN -1 ELSE 0)
             ELSE 0)]

\* What the frame a call ended on held when the call began
Before(frame) ==
  IF frame = NoFrame
  THEN [valid |-> FALSE, pinned |-> FALSE, dirty |-> FALSE]
  ELSE [valid |-> bufDescTable[frame].valid,
        pinned |-> bufDescTable[frame].pinCnt > 0,
        dirty |-> bufDescTable[frame].dirty]

\* The manager has not been destroyed
Alive == last.op # "~BufMgr"

\* The call returns (or raises m.err): the manager's fields take their new values
Return(m, op, file, pageNo) ==
  /\ Alive
  /\ bufDescTable' = m.bufDescTable
  /\ bufPool' = m.bufPool
  /\ hashTable' = m.hashTable
  /\ clockHand' = m.clockHand
  /\ files' = m.files
  /\ outstanding' = Outstanding(m, op, <<file, pageNo>>)
  /\ last' = [op |-> op, err |-> m.err, frame |-> m.frame,
              writes |-> Len(SelectSeq(m.log, LAMBDA e : e.ev = "writePage")),
              before |-> Before(m.frame)]

\* ---------------------------------------------------------- specification
\* BufMgr::BufMgr: every frame empty, the hand on the last frame
Init ==
  /\ bufDescTable = [i \in Frames |-> Clear(<<>>)]
  /\ bufPool = [i \in Frames |-> INVALID_NUMBER]
  /\ hashTable = {}
  /\ clockHand = NumBufs - 1
  /\ files = [f \in Files |-> {}]
  /\ outstanding = [k \in Keys |-> 0]
  /\ last = [op |-> "BufMgr", err |-> NoError, frame |-> NoFrame, writes |-> 0,
             before |-> Before(NoFrame)]

PinCntOf(file, pageNo) ==
  IF lookup(hashTable, file, pageNo) = NoFrame THEN 0
  ELSE bufDescTable[lookup(hashTable, file, pageNo)].pinCnt

ReadPage ==
  \E file \in Files, pageNo \in PageIds :
    /\ PinCntOf(file, pageNo) < MaxPin
    /\ Return(readPage(Mgr, file, pageNo), "readPage", file, pageNo)

UnPinPage ==
  \E file \in Files, pageNo \in PageIds, dirty \in BOOLEAN :
    /\ Return(unPinPage(Mgr, file, pageNo, dirty), "unPinPage", file, pageNo)

AllocPage ==
  \E file \in Files, pageNo \in PageIds :
    /\ pageNo \notin files[file]
    /\ Return(allocPage(Mgr, file, pageNo), "allocPage", file, pageNo)

FlushFile ==
  \E file \in Files :
    /\ Return(flushFile(Mgr, file), "flushFile", file, INVALID_NUMBER)

DisposePage ==
  \E file \in Files, pageNo \in PageIds :
    /\ Return(disposePage(Mgr, file, pageNo), "disposePage", file, pageNo)

\* The manager is destroyed; its frame table, pool and directory are released
\* (they keep their last values here) and no operation follows.
Destructor ==
  /\ Return(destructor(Mgr), "~BufMgr", NullFile, INVALID_NUMBER)

Next ==
  ReadPage \/ UnPinPage \/ AllocPage \/ FlushFile \/ DisposePage \/ Destructor

Spec == Init /\ [][Next]_vars

\* ============================================================ properties
Desc(i) == bufDescTable[i]

Entry(file, pageNo, frame) == [file |-> file, pageNo |-> pageNo, frameNo |-> frame]

AllPinned == \A i \in Frames : Desc(i).valid /\ Desc(i).pinCnt > 0

\* positions of the events of one kind in the log of a call
Positions(log, ev) == {n \in 1..Len(log) : log[n].ev = ev}

\* C1: a frame is valid if and only if the directory maps the frame's
\* (file, pageNo) to the frame's index, and no directory entry points to an
\* invalid frame or to a frame that holds another (file, pageNo); in every
\* state any sequence of calls reaches, calls that raise included.
DirectoryMatchesFrames ==
  /\ \A i \in Frames :
       Desc(i).valid <=> Entry(Desc(i).file, Desc(i).pageNo, i) \in hashTable
  /\ \A e \in hashTable :
       /\ e.frameNo \in Frames
       /\ Desc(e.frameNo).valid
       /\ Desc(e.frameNo).file = e.file
       /\ Desc(e.frameNo).pageNo = e.pageNo

\* C1 witness: a call has raised and left the pool with an occupied frame
\* and an empty one.
DirectoryAfterError ==
  /\ last.err # NoError
  /\ \E i \in Frames : Desc(i).valid
  /\ \E i \in Frames : ~Desc(i).valid

\* C2: no two valid frames hold the same (file, pageNo).
OneCopyPerPage ==
  \A i, j \in Frames :
    (i # j /\ Desc(i).valid /\ Desc(j).valid)
      => ~(Desc(i).file = Desc(j).file /\ Desc(i).pageNo = Desc(j).pageNo)

\* C2 witness: an allocPage has filled the last frame; every frame is
\* occupied, two of them by pages of the same file.
PoolFullOfDistinctPages ==
  /\ last.op = "allocPage" /\ last.err = NoError
  /\ \A i \in Frames : Desc(i).valid
  /\ \E i, j \in Frames : i # j /\ Desc(i).file = Desc(j).file

\* C3: BufferExceeded is raised only when every frame is pinned: a call that
\* raised it left (and, the failing sweep changing no pin count and no valid
\* flag, found) every frame valid with pinCnt > 0.
ExceededOnlyWhenAllPinned == (last.err = "BufferExceeded") => AllPinned

\* the descriptor without its reference bit
NoRefbit(d) == [d EXCEPT !.refbit = FALSE]

\* C4: when every frame is pinned, readPage of a page that is not resident
\* raises BufferExceeded and leaves the directory, every frame's valid flag,
\* owner, page number, pin count and dirty bit, the page pool and the files
\* as they were, with no writePage, no directory removal and no Clear (only
\* reference bits and the clock hand may differ).
ExhaustionLeavesPoolIntact ==
  AllPinned =>
    \A file \in Files, pageNo \in PageIds :
      lookup(hashTable, file, pageNo) = NoFrame =>
        LET r == readPage(Mgr, file, pageNo)
        IN  /\ r.err = "BufferExceeded"
            /\ r.hashTable = hashTable
            /\ \A i \in Frames : NoRefbit(r.bufDescTable[i]) = NoRefbit(Desc(i))
            /\ r.bufPool = bufPool
            /\ r.files = files
            /\ r.log = <<>>

\* C4 witness: a readPage has raised BufferExceeded on a pool whose frames
\* are all pinned.
ExhaustedByRead ==
  last.op = "readPage" /\ last.err = "BufferExceeded" /\ AllPinned

\* C5: the pin count of every resident page is the number of successful
\* readPage/allocPage calls on it minus the number of successful unPinPage
\* calls on it since it was loaded; a successful readPage or allocPage raises
\* the count by exactly 1 (to exactly 1 on a miss or an allocation) and a
\* successful unPinPage of a resident page lowers it by exactly 1.
PinAccounting ==
  /\ \A e \in hashTable :
       Desc(e.frameNo).pinCnt = outstanding[<<e.file, e.pageNo>>]
  /\ (last.op \in {"readPage", "allocPage"} /\ last.err = NoError)
       => Desc(last.frame).pinCnt >= 1
  /\ \A file \in Files, pageNo \in PageIds :
       LET r == readPage(Mgr, file, pageNo)
           a == allocPage(Mgr, file, pageNo)
       IN  /\ r.err = NoError =>
                /\ lookup(r.hashTable, file, pageNo) = r.frame
                /\ r.bufDescTable[r.frame].pinCnt = PinCntOf(file, pageNo) + 1
           /\ (pageNo \notin files[file] /\ a.err = NoError) =>
                /\ lookup(a.hashTable, file, pageNo) = a.frame
                /\ a.bufDescTable[a.frame].pinCnt = 1
           /\ \A dirty \in BOOLEAN :
                LET u == unPinPage(Mgr, file, pageNo, dirty)
                IN  (u.err = NoError /\ lookup(hashTable, file, pageNo) # NoFrame) =>
                      /\ lookup(u.hashTable, file, pageNo) = u.frame
                      /\ u.bufDescTable[u.frame].pinCnt = PinCntOf(file, pageNo) - 1

\* C5 witness: an unPinPage has balanced the reads of a resident page, whose
\* pin count is back to 0, while another page is pinned MaxPin times.
PinsBalanced ==
  /\ last.op = "unPinPage" /\ last.err = NoError /\ last.frame # NoFrame
  /\ Desc(last.frame).valid /\ Desc(last.frame).pinCnt = 0
  /\ \E i \in Frames : Desc(i).pinCnt = MaxPin

\* the call that ended in r left frame i holding the page it holds now
Keeps(r, i) ==
  /\ r.bufDescTable[i].valid
  /\ r.bufDescTable[i].file = Desc(i).file
  /\ r.bufDescTable[i].pageNo = Desc(i).pageNo
  /\ lookup(r.hashTable, Desc(i).file, Desc(i).pageNo) = i

\* C6: a frame with pinCnt > 0 is never the frame allocBuf returns and is
\* never removed by flushFile; whatever readPage, allocPage, unPinPage or
\* flushFile call comes next, the page stays in its frame and in the
\* directory.
PinnedFramesStay ==
  \A i \in Frames :
    Desc(i).pinCnt > 0 =>
      /\ allocBuf(Mgr).frame # i
      /\ \A file \in Files :
           /\ Keeps(flushFile(Mgr, file), i)
           /\ \A pageNo \in PageIds :
                /\ Keeps(readPage(Mgr, file, pageNo), i)
                /\ pageNo \notin files[file] => Keeps(allocPage(Mgr, file, pageNo), i)
                /\ \A dirty \in BOOLEAN : Keeps(unPinPage(Mgr, file, pageNo, dirty), i)

\* C6 witness: a readPage or allocPage has evicted a dirty page while another
\* frame was pinned; the pinned frame is still there.
EvictedAroundPinned ==
  /\ last.op \in {"readPage", "allocPage"} /\ last.err = NoError /\ last.writes = 1
  /\ \E i \in Frames : i # last.frame /\ Desc(i).valid /\ Desc(i).pinCnt > 0

\* the frame the call that ended in r took from a page that was resident
Victim(r) == r.frame # NoFrame /\ Desc(r.frame).valid

\* the log of a call that evicted the page of frame i: writePage of the
\* victim exactly once and before everything else when the victim is dirty,
\* no writePage when it is clean
EvictionLog(log, i) ==
  LET W == Positions(log, "writePage")
      After == Positions(log, "remove") \cup Positions(log, "Clear")
                 \cup Positions(log, "readPage") \cup Positions(log, "store")
  IN  /\ Event("remove", Desc(i).file, Desc(i).pageNo, i) \in {log[n] : n \in 1..Len(log)}
      /\ Event("Clear", NullFile, INVALID_NUMBER, i) \in {log[n] : n \in 1..Len(log)}
      /\ IF Desc(i).dirty
         THEN /\ Cardinality(W) = 1
              /\ \A w \in W :
                   /\ log[w] = Event("writePage", Desc(i).file, Desc(i).pageNo, i)
                   /\ \A n \in After : w < n
         ELSE W = {}

\* C7: when allocBuf evicts a dirty frame, writePage of the victim page is
\* called on its file exactly once, before the victim's directory entry is
\* removed, before its descriptor is Cleared and before the new page is read
\* from the file and stored in the pool; a clean victim is not written.
DirtyVictimWrittenFirst ==
  \A file \in Files, pageNo \in PageIds :
    LET r == readPage(Mgr, file, pageNo)
        a == allocPage(Mgr, file, pageNo)
    IN  /\ (lookup(hashTable, file, pageNo) = NoFrame /\ Victim(r))
             => EvictionLog(r.log, r.frame)
        /\ (pageNo \notin files[file] /\ Victim(a))
             => EvictionLog(a.log, a.frame)

\* C7 witness: a readPage miss has evicted a dirty page and written it.
DirtyVictimWritten ==
  last.op = "readPage" /\ last.err = NoError /\ last.writes = 1

\* C8: unPinPage of a resident page whose pin count is 0 raises PageNotPinned
\* and leaves the pin count 0; no pin count is ever negative.
UnpinUnderflowRefused ==
  /\ \A i \in Frames : Desc(i).pinCnt >= 0
  /\ \A file \in Files, pageNo \in PageIds, dirty \in BOOLEAN :
       LET frame == lookup(hashTable, file, pageNo)
           r == unPinPage(Mgr, file, pageNo, dirty)
       IN  (frame # NoFrame /\ Desc(frame).pinCnt = 0) =>
             /\ r.err = "PageNotPinned"
             /\ r.bufDescTable[frame].pinCnt = 0

\* C8 witness: an unPinPage has raised PageNotPinned on a resident page.
UnpinRefused ==
  /\ last.op = "unPinPage" /\ last.err = "PageNotPinned"
  /\ Desc(last.frame).valid /\ Desc(last.frame).pinCnt = 0

\* C9: unPinPage of a (file, pageNo) that is not in the directory raises
\* nothing and changes nothing, for either value of dirty: frame table, page
\* pool, directory, clock hand and files stay as they are.
UnpinOfAbsentPageIsNoop ==
  \A file \in Files, pageNo \in PageIds, dirty \in BOOLEAN :
    lookup(hashTable, file, pageNo) = NoFrame =>
      LET r == unPinPage(Mgr, file, pageNo, dirty)
      IN  /\ r.err = NoError
          /\ r.bufDescTable = bufDescTable
          /\ r.bufPool = bufPool
          /\ r.hashTable = hashTable
          /\ r.clockHand = clockHand
          /\ r.files = files
          /\ r.log = <<>>

\* C9 witness: an unPinPage of a page that is not resident has returned
\* while other pages are resident and pinned.
UnpinnedAbsentPage ==
  /\ last.op = "unPinPage" /\ last.err = NoError /\ last.frame = NoFrame
  /\ \E i \in Frames : Desc(i).valid /\ Desc(i).pinCnt > 0

\* C10: when flushFile(f) returns normally, no frame is owned by f and the
\* directory has no entry of f; every frame of f that was dirty was written
\* exactly once (its own page, to f), no clean frame was written, and the
\* frames and pool slots of the other files are unchanged.
FlushEmptiesFile ==
  \A file \in Files :
    LET r == flushFile(Mgr, file)
        W == Positions(r.log, "writePage")
    IN  r.err = NoError =>
          /\ \A i \in Frames : r.bufDescTable[i].file # file
          /\ \A e \in r.hashTable : e.file # file
          /\ \A i \in Frames :
               IF Desc(i).file = file
               THEN Cardinality({w \in W : r.log[w].frame = i})
                      = (IF Desc(i).dirty THEN 1 ELSE 0)
               ELSE /\ r.bufDescTable[i] = Desc(i)
                    /\ r.bufPool[i] = bufPool[i]
                    /\ Desc(i).valid => lookup(r.hashTable, Desc(i).file, Desc(i).pageNo) = i
          /\ \A w \in W :
               r.log[w] = Event("writePage", file, Desc(r.log[w].frame).pageNo, r.log[w].frame)

\* C10 witness: a flushFile has returned normally after writing a dirty page
\* back, and a page of the other file is still resident.
FlushedDirtyPage ==
  /\ last.op = "flushFile" /\ last.err = NoError /\ last.writes >= 1
  /\ \E i \in Frames : Desc(i).valid

\* the frames of a file that are pinned
PinnedFramesOf(file) == {i \in Frames : Desc(i).file = file /\ Desc(i).pinCnt > 0}

Min(S) == CHOOSE x \in S : \A y \in S : x <= y

\* C11: when flushFile(f) meets a frame of f with pinCnt > 0 it raises
\* PagePinned with the pool partially flushed: every frame of f at a lower
\* index has been written back if dirty (once), removed from the directory and
\* Cleared; the pinned frame, every frame at a higher index and the frames of
\* the other files are exactly as they were.
PartialFlushOnPinned ==
  \A file \in Files :
    PinnedFramesOf(file) # {} =>
      LET k == Min(PinnedFramesOf(file))
          r == flushFile(Mgr, file)
          W == Positions(r.log, "writePage")
      IN  /\ r.err = "PagePinned"
          /\ r.frame = k
          /\ \A i \in Frames :
               IF i < k /\ Desc(i).file = file
               THEN /\ r.bufDescTable[i] = Clear(Desc(i))
                    /\ lookup(r.hashTable, file, Desc(i).pageNo) = NoFrame
                    /\ Cardinality({w \in W : r.log[w] =
                                      Event("writePage", file, Desc(i).pageNo, i)})
                         = (IF Desc(i).dirty THEN 1 ELSE 0)
               ELSE /\ r.bufDescTable[i] = Desc(i)
                    /\ Desc(i).valid =>
                         lookup(r.hashTable, Desc(i).file, Desc(i).pageNo) = i
                    /\ \A w \in W : r.log[w].frame # i
          /\ r.bufPool = bufPool
          /\ r.clockHand = clockHand
          /\ r.files = files

\* C11 witness: a flushFile has raised PagePinned at a frame after it had
\* written back and emptied a dirty frame of the file at a lower index.
FlushStoppedHalfway ==
  /\ last.op = "flushFile" /\ last.err = "PagePinned" /\ last.writes = 1
  /\ Desc(last.frame).valid /\ Desc(last.frame).pinCnt > 0
  /\ \E i \in Frames : i < last.frame /\ ~Desc(i).valid

\* C12: disposePage(file, p) removes the directory entry of a resident page
\* and Clears its frame without any writePage, dirty or not; resident or not,
\* File::deletePage(p) is called exactly once, the manager raises nothing, and
\* no other frame, no other directory entry, no pool slot and not the clock
\* hand is changed.
DisposeDropsPage ==
  \A file \in Files, pageNo \in PageIds :
    LET frame == lookup(hashTable, file, pageNo)
        r == disposePage(Mgr, file, pageNo)
        D == Positions(r.log, "deletePage")
    IN  /\ r.err = NoError
        /\ Positions(r.log, "writePage") = {}
        /\ Cardinality(D) = 1
        /\ \A n \in D : r.log[n] = Event("deletePage", file, pageNo, NoFrame)
        /\ pageNo \notin r.files[file]
        /\ r.hashTable = hashTable \ {Entry(file, pageNo, frame)}
        /\ \A i \in Frames :
             r.bufDescTable[i] = (IF i = frame THEN Clear(Desc(i)) ELSE Desc(i))
        /\ r.bufPool = bufPool
        /\ r.clockHand = clockHand

\* C12 witness: a disposePage has emptied the frame of a resident dirty page
\* without writing it.
DisposedDirtyPage ==
  /\ last.op = "disposePage" /\ last.err = NoError /\ last.writes = 0
  /\ last.before.valid /\ last.before.dirty
  /\ ~Desc(last.frame).valid

\* C13: a full buffer pool leaks no page number on the disk side: whenever
\* allocPage(file) raises BufferExceeded, the file's set of allocated pages is
\* the same as before the call.
AllocFailureLeavesFile ==
  \A file \in Files, pageNo \in PageIds :
    pageNo \notin files[file] =>
      LET r == allocPage(Mgr, file, pageNo)
      IN  r.err = "BufferExceeded" => r.files = files

\* C14: when File::readPage raises in the miss branch of readPage, the error
\* reaches the caller and the frame allocBuf returned is left empty: invalid,
\* pinCnt = 0, with no directory entry for (file, pageNo) and no directory
\* entry that points to the frame.
FailedReadLeavesFrameEmpty ==
  \A file \in Files, pageNo \in PageIds :
    lookup(hashTable, file, pageNo) = NoFrame =>
      LET r == readPage(Mgr, file, pageNo)
      IN  /\ (pageNo \notin files[file] /\ allocBuf(Mgr).err = NoError)
               => r.err = "InvalidPage"
          /\ r.err = "InvalidPage" =>
               /\ r.frame \in Frames
               /\ ~r.bufDescTable[r.frame].valid
               /\ r.bufDescTable[r.frame].pinCnt = 0
               /\ lookup(r.hashTable, file, pageNo) = NoFrame
               /\ \A e \in r.hashTable : e.frameNo # r.frame

\* C14 witness: a readPage has evicted a page to get a frame, the file has
\* then refused the read, and the frame is empty.
ReadFailedAfterEviction ==
  /\ last.op = "readPage" /\ last.err = "InvalidPage"
  /\ last.before.valid
  /\ ~Desc(last.frame).valid

\* C15: destroying the manager calls writePage exactly once for every frame
\* that is valid and dirty (its own page, on its own file) and for no other
\* frame, whatever the pin counts, and raises nothing.
ShutdownWritesDirtyFrames ==
  LET r == destructor(Mgr)
      W == Positions(r.log, "writePage")
  IN  /\ r.err = NoError
      /\ Len(r.log) = Cardinality(W)
      /\ \A i \in Frames :
           Cardinality({w \in W : r.log[w].frame = i})
             = (IF Desc(i).valid /\ Desc(i).dirty THEN 1 ELSE 0)
      /\ \A w \in W :
           r.log[w] = Event("writePage", Desc(r.log[w].frame).file,
                            Desc(r.log[w].frame).pageNo, r.log[w].frame)

\* C15 witness: the manager has been destroyed with a dirty frame that was
\* still pinned, which it wrote, and a clean frame, which it did not.
DestroyedWithPinnedDirtyFrame ==
  /\ last.op = "~BufMgr" /\ last.err = NoError /\ last.writes = 1
  /\ \E i \in Frames : Desc(i).valid /\ Desc(i).dirty /\ Desc(i).pinCnt > 0
  /\ \E i \in Frames : Desc(i).valid /\ ~Desc(i).dirty

\* C16: from every reachable state allocBuf ends, with a frame or with
\* BufferExceeded, after at most 2 * numBufs advances of the clock hand.
SweepEndsWithinTwoTurns ==
  LET r == allocBuf(Mgr)
  IN  /\ r.advances <= 2 * NumBufs
      /\ \/ r.err = NoError /\ r.frame \in Frames
         \/ r.err = "BufferExceeded" /\ r.frame = NoFrame

\* C16 witness: a readPage or allocPage has returned and left a pool in which
\* allocBuf needs exactly 2 * numBufs advances, and then finds a victim.
SweepTakesTwoTurns ==
  /\ last.op \in {"readPage", "allocPage"} /\ last.err = NoError
  /\ allocBuf(Mgr).advances = 2 * NumBufs
  /\ allocBuf(Mgr).err = NoError

\* the call that ended in r moved no page that was and still is resident
StaysPut(r) ==
  \A e \in hashTable :
    lookup(r.hashTable, e.file, e.pageNo) \in {NoFrame, e.frameNo}

\* C17: readPage of a resident page is a hit: it returns the frame that holds
\* the page, sets its refbit and adds one pin, calls neither File::readPage nor
\* writePage, leaves the clock hand, the directory, the pool and every other
\* frame alone.  No operation moves a page that stays resident, so a later
\* readPage finds the page in its frame exactly while it has not been removed;
\* once removed, the read is a miss that runs allocBuf and reads the file.
HitTouchesOneFrame ==
  \A file \in Files, pageNo \in PageIds :
    LET frame == lookup(hashTable, file, pageNo)
        r == readPage(Mgr, file, pageNo)
    IN  /\ frame # NoFrame =>
             /\ r.err = NoError
             /\ r.frame = frame
             /\ r.bufDescTable =
                  [bufDescTable EXCEPT ![frame].refbit = TRUE,
                                       ![frame].pinCnt = @ + 1]
             /\ r.log = <<>>
             /\ r.advances = 0
             /\ r.clockHand = clockHand
             /\ r.hashTable = hashTable
             /\ r.bufPool = bufPool
             /\ r.files = files
        /\ frame = NoFrame =>
             /\ r.advances > 0
             /\ r.err = NoError => Positions(r.log, "readPage") # {}
        /\ StaysPut(r)
        /\ StaysPut(disposePage(Mgr, file, pageNo))
        /\ StaysPut(flushFile(Mgr, file))
        /\ pageNo \notin files[file] => StaysPut(allocPage(Mgr, file, pageNo))
        /\ \A dirty \in BOOLEAN : StaysPut(unPinPage(Mgr, file, pageNo, dirty))

\* C17 witness: a readPage has hit a page that was already pinned, while
\* another page is resident.
HitOnPinnedPage ==
  /\ last.op = "readPage" /\ last.err = NoError
  /\ last.before.valid /\ last.before.pinned
  /\ Desc(last.frame).refbit /\ Desc(last.frame).pinCnt = MaxPin
  /\ \E i \in Frames : i # last.frame /\ Desc(i).valid

\* the place of frame i in the order in which a sweep from the current hand
\* position visits the frames
ClockOrder(i) == (i - clockHand - 1) % NumBufs

\* the invalid frame a sweep reaches with only referenced or pinned frames
\* before it, NoFrame if there is none
FirstInvalid ==
  LET S == {j \in Frames :
              /\ ~Desc(j).valid
              /\ \A i \in Frames :
                   ClockOrder(i) < ClockOrder(j) =>
                     Desc(i).valid /\ (Desc(i).refbit \/ Desc(i).pinCnt > 0)}
  IN  IF S = {} THEN NoFrame ELSE CHOOSE j \in S : TRUE

\* what a successful readPage miss or allocPage, ended in r, did to the pages
\* that were resident
OneVictimAtMost(r) ==
  /\ (\A i \in Frames : Desc(i).valid) =>
       /\ Victim(r)
       /\ Desc(r.frame).pinCnt = 0
       /\ lookup(r.hashTable, Desc(r.frame).file, Desc(r.frame).pageNo) = NoFrame
       /\ Cardinality({e \in hashTable :
                         lookup(r.hashTable, e.file, e.pageNo) = NoFrame}) = 1
       /\ \A i \in Frames \ {r.frame} :
            Keeps(r, i) /\ NoRefbit(r.bufDescTable[i]) = NoRefbit(Desc(i))
  /\ FirstInvalid # NoFrame =>
       /\ r.frame = FirstInvalid
       /\ hashTable \subseteq r.hashTable
       /\ Positions(r.log, "remove") = {}
       /\ Positions(r.log, "writePage") = {}
  /\ (Victim(r) /\ ~Desc(r.frame).dirty) => Positions(r.log, "writePage") = {}

\* C18: a successful readPage miss or allocPage on a pool with no invalid
\* frame evicts exactly one page that was resident, one whose pinCnt was 0,
\* and keeps every other resident page in its frame; when the sweep reaches an
\* invalid frame before any frame it could evict, no page is evicted; a clean
\* victim is evicted without a File::writePage.
MissEvictsOnePage ==
  \A file \in Files, pageNo \in PageIds :
    /\ lookup(hashTable, file, pageNo) = NoFrame =>
         LET r == readPage(Mgr, file, pageNo)
         IN  r.err = NoError => OneVictimAtMost(r)
    /\ pageNo \notin files[file] =>
         LET r == allocPage(Mgr, file, pageNo)
         IN  r.err = NoError => OneVictimAtMost(r)

\* C18 witness: an allocPage has evicted a clean unpinned page from a full
\* pool without a write, and the other page is resident as before.
EvictedCleanPage ==
  /\ last.op = "allocPage" /\ last.err = NoError
  /\ last.before.valid /\ ~last.before.pinned /\ ~last.before.dirty
  /\ last.writes = 0
  /\ \A i \in Frames : Desc(i).valid

\* C19: when unPinPage raises PageNotPinned the descriptor of the target
\* frame, its dirty bit included, is exactly as it was before the call, so the
\* refused call causes no later write-back of the page.
RefusedUnpinLeavesDescriptor ==
  \A file \in Files, pageNo \in PageIds, dirty \in BOOLEAN :
    LET r == unPinPage(Mgr, file, pageNo, dirty)
    IN  r.err = "PageNotPinned" => r.bufDescTable = bufDescTable

\* C20: disposePage does not look at the pin count: disposing a resident page
\* with pinCnt > 0 raises nothing and Clears its frame (invalid, pinCnt 0)
\* while every other frame stays as it was, so pinCnt > 0 implies valid before
\* and after; an unPinPage of the page after that changes nothing and raises
\* nothing, and the next allocBuf succeeds and returns the cleared frame when
\* only referenced or pinned frames come before it in clock order.
DisposeIgnoresPins ==
  /\ \A i \in Frames : Desc(i).pinCnt > 0 => Desc(i).valid
  /\ \A file \in Files, pageNo \in PageIds :
       LET frame == lookup(hashTable, file, pageNo)
           r == disposePage(Mgr, file, pageNo)
           a == allocBuf(r)
       IN  (frame # NoFrame /\ Desc(frame).pinCnt > 0) =>
             /\ r.err = NoError
             /\ r.bufDescTable = [bufDescTable EXCEPT ![frame] = Clear(@)]
             /\ ~r.bufDescTable[frame].valid
             /\ r.bufDescTable[frame].pinCnt = 0
             /\ lookup(r.hashTable, file, pageNo) = NoFrame
             /\ \A i \in Frames :
                  r.bufDescTable[i].pinCnt > 0 => r.bufDescTable[i].valid
             /\ \A dirty \in BOOLEAN : unPinPage(r, file, pageNo, dirty) = r
             /\ a.err = NoError
             /\ ~Desc(a.frame).valid \/ Desc(a.frame).pinCnt = 0 \/ a.frame = frame
             /\ (\A i \in Frames :
                   ClockOrder(i) < ClockOrder(frame) =>
                     Desc(i).valid /\ (Desc(i).refbit \/ Desc(i).pinCnt > 0))
                  => a.frame = frame

\* C20 witness: a disposePage has cleared the frame of a page that was pinned,
\* the clock hand reaches that frame next, and another page is still pinned.
DisposedPinnedPage ==
  /\ last.op = "disposePage" /\ last.err = NoError
  /\ last.before.valid /\ last.before.pinned
  /\ ~Desc(last.frame).valid /\ Desc(last.frame).pinCnt = 0
  /\ ClockOrder(last.frame) = 0
  /\ \E i \in Frames : Desc(i).valid /\ Desc(i).pinCnt > 0

====
